---- MODULE Spec2Model ----
(***************************************************************************)
(* Model of KnowledgeGraphService (backend/app/services/                   *)
(* knowledge_graph_service.py): one build of a research knowledge graph,   *)
(* from the data-store query through node/edge collection, the enrichment  *)
(* stages, assembly of the graph object and its persistence.               *)
(***************************************************************************)
EXTENDS Integers, Sequences, FiniteSets, TLC

(* ------------------------------ bounds -------------------------------- *)
\* largest node budget (max_nodes) a build is started with
MaxBudget == 4
\* the data the store holds grows with the budget: author ids, keyword ids,
\* and citation rows per paper
MaxAuthors == MaxBudget \div 2
MaxKeywords == MaxBudget \div 4
MaxCites == MaxBudget \div 4

(* --------------------------- data-store rows --------------------------- *)
AuthorIds == 1..MaxAuthors
KeywordIds == 1..MaxKeywords
\* the paper ids a fetch can return; one more id stands for a paper that
\* exists in the store but is not part of the fetched result
MaxPapers == MaxBudget \div 2
FetchedPaperIds == 1..MaxPapers
CitedPaperIds == 1..(MaxPapers + 1)

RECURSIVE SetToSortedSeq(_)
SetToSortedSeq(S) ==
    IF S = {} THEN << >>
    ELSE LET m == CHOOSE x \in S : \A y \in S : x <= y
         IN  <<m>> \o SetToSortedSeq(S \ {m})

\* a relationship collection: distinct related rows (association primary key)
RelLists(S) == { SetToSortedSeq(T) : T \in SUBSET S }

SeqsUpTo(S, n) == UNION { [1..k -> S] : k \in 0..n }

\* one ResearchPaper row with its eagerly loaded relationships
PaperRows(i) ==
    { [id |-> i, authors |-> a, keywords |-> kw, citations_made |-> c] :
        a \in RelLists(AuthorIds), kw \in RelLists(KeywordIds),
        c \in SeqsUpTo(CitedPaperIds, MaxCites) }

\* the query's LIMIT: max_nodes // 2
PaperLimit(budget) == budget \div 2

\* what result.scalars().all() can be for a budget: at most LIMIT distinct papers
QueryResults(budget) ==
    UNION { { r \in [1..n -> UNION { PaperRows(i) : i \in FetchedPaperIds }] :
                \A i \in 1..n : r[i].id = i } :
            n \in 0..PaperLimit(budget) }

(* ------------------------------ node ids ------------------------------- *)
\* f"paper_{id}", f"author_{id}", f"keyword_{id}": prefix and row id
PaperNodeId(i) == <<"paper", i>>
AuthorNodeId(i) == <<"author", i>>
KeywordNodeId(i) == <<"keyword", i>>

\* Python's None, for an Optional field
None == << >>
\* a local of the build that has not been assigned yet
Unset == "unset"

\* the importance a GraphNode is constructed with: 0.0
ZeroScore == [num |-> 0, den |-> 1]

\* GraphNode(...) as constructed by the builder: enrichment fields at defaults
GraphNode(nid, ntype) ==
    [id |-> nid, node_type |-> ntype, position |-> None,
     cluster_id |-> None, importance_score |-> ZeroScore]

\* GraphEdge(...); weight in tenths (1.0 -> 10, 0.5 -> 5)
GraphEdge(src, tgt, etype, w10) ==
    [source |-> src, target |-> tgt, edge_type |-> etype, weight10 |-> w10]

VARIABLES
    max_nodes,      \* the build's node budget
    algorithm,      \* the algorithm name _generate_3d_layout is called with
    logged,         \* the stages that reported an error with logger.error
    pc,             \* position of the build
    papers_data,    \* rows returned by the paper query
    nodes,          \* list of GraphNode
    edges,          \* list of GraphEdge
    node_ids,       \* set of admitted node ids
    p,              \* index of the paper the current loop is at
    k,              \* index inside the current paper's authors / keywords
    nx_graph,       \* the undirected analysis graph: [nodes, edges]
    analysis,       \* result of _analyze_graph_structure
    layout,         \* node id -> position, result of _generate_3d_layout
    sim,            \* the frame of _force_directed_layout while it iterates
    clusters,       \* list of GraphCluster
    importance_scores, \* node id -> score
    graph_data,     \* the graph object handed to the sink and returned
    session,        \* the AsyncSession: pending objects and the calls made on it
    db_graphs       \* committed knowledge_graphs rows

builder_vars == <<papers_data, nodes, edges, node_ids, p, k>>
enrich_vars == <<nx_graph, analysis, layout, clusters, importance_scores>>
sink_vars == <<session, db_graphs>>
vars == <<max_nodes, algorithm, logged, pc, papers_data, nodes, edges, node_ids, p, k, nx_graph,
          analysis, layout, sim, clusters, importance_scores, graph_data, session,
          db_graphs>>

\* the session handed out by get_async_session()
NewSession ==
    [new |-> << >>, executed |-> "no", add_calls |-> 0, committed |-> "no",
     rollback_calls |-> 0, closed |-> FALSE]

\* the frame of a force-directed simulation that has not started
NoSim == [iteration |-> 0, temperature |-> [start |-> 0, cooled |-> 0], moved |-> << >>]

\* the algorithm name the build passes to _generate_3d_layout
BuildAlgorithm == "force_directed"

Init ==
    /\ max_nodes \in 0..MaxBudget
    /\ algorithm = BuildAlgorithm
    /\ logged = {}
    /\ pc = "query"
    /\ papers_data = << >>
    /\ nodes = << >>
    /\ edges = << >>
    /\ node_ids = {}
    /\ p = 1
    /\ k = 1
    /\ nx_graph = Unset
    /\ analysis = Unset
    /\ layout = Unset
    /\ sim = NoSim
    /\ clusters = Unset
    /\ importance_scores = Unset
    /\ graph_data = Unset
    /\ session = NewSession
    /\ db_graphs = {}

\* an exception leaving the `async with get_async_session()` block:
\* rollback, re-raise, close; build_research_knowledge_graph logs and re-raises
SessionAfterRaise(s) ==
    [s EXCEPT !.new = << >>, !.rollback_calls = @ + 1, !.closed = TRUE]

(* ------------------------- _collect_graph_data ------------------------- *)
\* session.execute(paper_query) succeeds
QueryOk ==
    /\ pc = "query"
    /\ papers_data' \in QueryResults(max_nodes)
    /\ pc' = "papers"
    /\ p' = 1
    /\ session' = [session EXCEPT !.executed = "ok"]
    /\ UNCHANGED <<max_nodes, sim, algorithm, logged, nodes, edges, node_ids, k, enrich_vars,
                   graph_data, db_graphs>>

\* the failure of the query is caught and the build goes on without papers
QueryFail_Swallowed ==
    /\ pc = "query"
    /\ pc' = "papers"
    /\ session' = [session EXCEPT !.executed = "raised"]
    /\ UNCHANGED <<max_nodes, sim, algorithm, logged, builder_vars, enrich_vars, graph_data, db_graphs>>

\* session.execute(paper_query) raises
QueryFail ==
    /\ pc = "query"
    /\ pc' = "raised"
    /\ session' = SessionAfterRaise([session EXCEPT !.executed = "raised"])
    /\ logged' = logged \cup {"building knowledge graph"}
    /\ UNCHANGED <<max_nodes, sim, algorithm, builder_vars, enrich_vars, graph_data, db_graphs>>

\* the budget test that guards the admission of a paper node
PaperFits == Len(nodes) < max_nodes

\* the admission test with the already-present half left out
RelatedFits_IgnoresSeen(nid) == Len(nodes) < max_nodes

\* the admission test with the budget half left out
RelatedFits_IgnoresBudget(nid) == nid \notin node_ids

\* the budget test that guards the admission of an author / keyword node
RelatedFits(nid) == nid \notin node_ids /\ Len(nodes) < max_nodes

AdmitPaper ==
    /\ pc = "papers"
    /\ p <= Len(papers_data)
    /\ PaperFits
    /\ nodes' = Append(nodes, GraphNode(PaperNodeId(papers_data[p].id), "paper"))
    /\ node_ids' = node_ids \cup {PaperNodeId(papers_data[p].id)}
    /\ pc' = "authors"
    /\ k' = 1
    /\ UNCHANGED <<max_nodes, sim, algorithm, logged, papers_data, edges, p, enrich_vars, graph_data,
                   sink_vars>>

\* `if len(nodes) >= max_nodes: break`, or the paper loop is exhausted
PapersEnd ==
    /\ pc = "papers"
    /\ (p > Len(papers_data) \/ ~PaperFits)
    /\ pc' = "citations"
    /\ p' = 1
    /\ UNCHANGED <<max_nodes, sim, algorithm, logged, papers_data, nodes, edges, node_ids, k,
                   enrich_vars, graph_data, sink_vars>>

\* the authorship edge built only for an author that has a node
ExpandAuthor_EdgeNeedsNode ==
    /\ pc = "authors"
    /\ k <= Len(papers_data[p].authors)
    /\ LET author_id == AuthorNodeId(papers_data[p].authors[k])
           paper_id == PaperNodeId(papers_data[p].id)
       IN  /\ IF RelatedFits(author_id)
                THEN /\ nodes' = Append(nodes, GraphNode(author_id, "author"))
                     /\ node_ids' = node_ids \cup {author_id}
                ELSE UNCHANGED <<nodes, node_ids>>
           /\ edges' = IF author_id \in node_ids'
                         THEN Append(edges, GraphEdge(author_id, paper_id, "authored_by", 10))
                         ELSE edges
    /\ k' = k + 1
    /\ UNCHANGED <<max_nodes, sim, algorithm, logged, pc, papers_data, p, enrich_vars,
                   graph_data, sink_vars>>

ExpandAuthor ==
    /\ pc = "authors"
    /\ k <= Len(papers_data[p].authors)
    /\ LET author_id == AuthorNodeId(papers_data[p].authors[k])
           paper_id == PaperNodeId(papers_data[p].id)
       IN  /\ IF RelatedFits(author_id)
                THEN /\ nodes' = Append(nodes, GraphNode(author_id, "author"))
                     /\ node_ids' = node_ids \cup {author_id}
                ELSE UNCHANGED <<nodes, node_ids>>
           /\ edges' = Append(edges, GraphEdge(author_id, paper_id, "authored_by", 10))
    /\ k' = k + 1
    /\ UNCHANGED <<max_nodes, sim, algorithm, logged, pc, papers_data, p, enrich_vars, graph_data,
                   sink_vars>>

AuthorsEnd ==
    /\ pc = "authors"
    /\ k > Len(papers_data[p].authors)
    /\ pc' = "keywords"
    /\ k' = 1
    /\ UNCHANGED <<max_nodes, sim, algorithm, logged, papers_data, nodes, edges, node_ids, p,
                   enrich_vars, graph_data, sink_vars>>

ExpandKeyword ==
    /\ pc = "keywords"
    /\ k <= Len(papers_data[p].keywords)
    /\ LET keyword_id == KeywordNodeId(papers_data[p].keywords[k])
           paper_id == PaperNodeId(papers_data[p].id)
       IN  /\ IF RelatedFits(keyword_id)
                THEN /\ nodes' = Append(nodes, GraphNode(keyword_id, "keyword"))
                     /\ node_ids' = node_ids \cup {keyword_id}
                ELSE UNCHANGED <<nodes, node_ids>>
           /\ edges' = Append(edges, GraphEdge(paper_id, keyword_id, "related_to", 5))
    /\ k' = k + 1
    /\ UNCHANGED <<max_nodes, sim, algorithm, logged, pc, papers_data, p, enrich_vars, graph_data,
                   sink_vars>>

KeywordsEnd ==
    /\ pc = "keywords"
    /\ k > Len(papers_data[p].keywords)
    /\ pc' = "papers"
    /\ p' = p + 1
    /\ k' = 1
    /\ UNCHANGED <<max_nodes, sim, algorithm, logged, papers_data, nodes, edges, node_ids, enrich_vars,
                   graph_data, sink_vars>>

\* a cites edge for every citation row, whatever it cites
CitesEdges_Unfiltered(paper, cited, ids) ==
    [i \in 1..Len(cited) |->
        GraphEdge(PaperNodeId(paper.id), PaperNodeId(cited[i]), "cites", 10)]

\* the cites edges one paper contributes, in the order of its citation rows
RECURSIVE CitesEdges(_, _, _)
CitesEdges(paper, cited, ids) ==
    IF cited = << >> THEN << >>
    ELSE LET cited_paper_id == PaperNodeId(Head(cited))
             rest == CitesEdges(paper, Tail(cited), ids)
         IN  IF cited_paper_id \in ids
               THEN <<GraphEdge(PaperNodeId(paper.id), cited_paper_id, "cites", 10)>> \o rest
               ELSE rest

CitePaper ==
    /\ pc = "citations"
    /\ p <= Len(papers_data)
    /\ edges' = edges \o CitesEdges(papers_data[p], papers_data[p].citations_made, node_ids)
    /\ p' = p + 1
    /\ UNCHANGED <<max_nodes, sim, algorithm, logged, pc, papers_data, nodes, node_ids, k, enrich_vars,
                   graph_data, sink_vars>>

\* `return nodes, edges`
CollectReturn ==
    /\ pc = "citations"
    /\ p > Len(papers_data)
    /\ pc' = "collected"
    /\ UNCHANGED <<max_nodes, sim, algorithm, logged, builder_vars, enrich_vars, graph_data, sink_vars>>

(* ----------------------- _create_networkx_graph ------------------------ *)
NodeIdsOf(ns) == { ns[i].id : i \in 1..Len(ns) }

\* nx.Graph(): add_node per listed node; add_edge also creates a missing
\* endpoint, and an undirected edge is stored once
CreateNetworkxGraph(ns, es) ==
    [nodes |-> NodeIdsOf(ns) \cup { es[i].source : i \in 1..Len(es) }
                             \cup { es[i].target : i \in 1..Len(es) },
     edges |-> { {es[i].source, es[i].target} : i \in 1..Len(es) }]

Neighbors(G, v) == { u \in G.nodes : {u, v} \in G.edges }

RECURSIVE Reach(_, _)
Reach(G, S) ==
    LET N == S \cup UNION { Neighbors(G, v) : v \in S }
    IN  IF N = S THEN S ELSE Reach(G, N)

Component(G, v) == Reach(G, {v})
Components(G) == { Component(G, v) : v \in G.nodes }

\* length of a shortest path from the frontier to t; -1 when there is none
RECURSIVE BfsDist(_, _, _, _, _)
BfsDist(G, visited, frontier, t, d) ==
    IF t \in frontier THEN d
    ELSE LET next == UNION { Neighbors(G, v) : v \in frontier } \ visited
         IN  IF next = {} THEN -1
             ELSE BfsDist(G, visited \cup next, next, t, d + 1)

Dist(G, s, t) == BfsDist(G, {s}, {s}, t, 0)

\* number of shortest paths from s to t
RECURSIVE Sigma(_, _, _)
Sigma(G, s, t) ==
    IF s = t THEN 1
    ELSE LET d == Dist(G, s, t)
             preds == { u \in Neighbors(G, t) : u # t /\ Dist(G, s, u) = d - 1 }
             RECURSIVE Sum(_)
             Sum(U) == IF U = {} THEN 0
                       ELSE LET u == CHOOSE x \in U : TRUE
                            IN  Sigma(G, s, u) + Sum(U \ {u})
         IN  IF d < 0 THEN 0 ELSE Sum(preds)

BuildNetworkx ==
    /\ pc = "collected"
    /\ nx_graph' = CreateNetworkxGraph(nodes, edges)
    /\ pc' = "graphed"
    /\ UNCHANGED <<max_nodes, sim, algorithm, logged, builder_vars, analysis, layout, clusters,
                   importance_scores, graph_data, sink_vars>>

(* ----------------------- _analyze_graph_structure ---------------------- *)
\* centrality measures are computed for graphs of at most this many nodes
CentralityCeiling == 500
\* k of nx.betweenness_centrality(graph, k=100): the number of pivots sampled
BetweennessPivots == 100

MaxOf(S) == CHOOSE x \in S : \A y \in S : y <= x

\* nx.is_connected raises on the null graph; sampling k pivots out of fewer
\* than k nodes raises; either lands in `except`, which returns only the error
AnalyzeGraphStructure(G) ==
    LET n == Cardinality(G.nodes)
        connected == Cardinality(Components(G)) = 1
    IN  IF n = 0 THEN [error |-> "null graph"]
        ELSE IF n <= CentralityCeiling /\ n < BetweennessPivots
               THEN [error |-> "sample larger than population"]
        ELSE [node_count |-> n,
              edge_count |-> Cardinality(G.edges),
              is_connected |-> connected,
              connected_components |-> Cardinality(Components(G)),
              diameter |-> IF connected
                             THEN MaxOf({ Dist(G, s, t) : s \in G.nodes, t \in G.nodes })
                             ELSE None,
              centrality_measures |-> n <= CentralityCeiling]

\* the exception raised inside the analyzer leaving it, and the build
Analyze_Propagates ==
    /\ pc = "graphed"
    /\ IF "error" \in DOMAIN AnalyzeGraphStructure(nx_graph)
         THEN /\ pc' = "raised"
              /\ session' = SessionAfterRaise(session)
              /\ logged' = logged \cup {"building knowledge graph"}
              /\ UNCHANGED analysis
         ELSE /\ pc' = "analyzed"
              /\ analysis' = AnalyzeGraphStructure(nx_graph)
              /\ UNCHANGED <<session, logged>>
    /\ UNCHANGED <<max_nodes, sim, algorithm, builder_vars, nx_graph, layout, clusters,
                   importance_scores, graph_data, db_graphs>>

Analyze ==
    /\ pc = "graphed"
    /\ analysis' = AnalyzeGraphStructure(nx_graph)
    /\ pc' = "analyzed"
    /\ logged' = IF "error" \in DOMAIN AnalyzeGraphStructure(nx_graph)
                    THEN logged \cup {"graph analysis"} ELSE logged
    /\ UNCHANGED <<max_nodes, sim, algorithm, builder_vars, nx_graph, layout, clusters,
                   importance_scores, graph_data, sink_vars>>

(* --------------------------- _generate_3d_layout ----------------------- *)
\* the keys of self.layout_algorithms
layout_algorithms == {"force_directed", "hierarchical", "circular", "spring"}

\* an unknown name is served by the first registered strategy that is not
\* the force-directed one
LayoutAlgorithm_UnknownToOther(name) ==
    IF name \notin layout_algorithms THEN "hierarchical" ELSE name

\* `if algorithm not in self.layout_algorithms: algorithm = "force_directed"`
LayoutAlgorithm(name) ==
    IF name \notin layout_algorithms THEN "force_directed" ELSE name

\* iterations of the force-directed simulation
Iterations == 100

\* a simulated position; the coordinates themselves are not modelled here
Position == <<"simulated">>
\* {"x": 0, "y": 0, "z": 0}
Origin == <<"origin">>

\* the attraction loop skipping an edge whose endpoint has no position
ForceDirectedRaises_Tolerant(ns, es) == FALSE

\* positions[edge.source] / positions[edge.target] in the attraction loop:
\* a KeyError when an endpoint of an edge has no node
ForceDirectedRaises(ns, es) ==
    /\ Iterations > 0
    /\ \E i \in 1..Len(es) :
          es[i].source \notin NodeIdsOf(ns) \/ es[i].target \notin NodeIdsOf(ns)

\* positions are initialised for the nodes that have an edge only
ForceDirectedLayout_ConnectedOnly(ns, es) ==
    [id \in { v \in NodeIdsOf(ns) :
                \E i \in 1..Len(es) : v \in {es[i].source, es[i].target} }
        |-> Position]

ForceDirectedLayout(ns, es) == [id \in NodeIdsOf(ns) |-> Position]

\* layer_assignments.get(node_type, 0)
LayerOf(node_type) ==
    CASE node_type = "paper" -> 0
      [] node_type = "author" -> 1
      [] node_type \in {"keyword", "concept"} -> 2
      [] node_type = "institution" -> 3
      [] OTHER -> 0

\* the 1-based places in ns of the nodes of one type, in list order
GroupPlaces(ns, node_type) == { i \in 1..Len(ns) : ns[i].node_type = node_type }

\* _hierarchical_layout: one layer per node type; a layer's only node sits
\* on the axis, several nodes sit on a ring of radius 50 + 5 * num_nodes.
\* A position is <<strategy, y, radius, slot, slots>>.
HierarchicalLayout(ns, es) ==
    [id \in NodeIdsOf(ns) |->
        LET i == CHOOSE j \in 1..Len(ns) :
                    ns[j].id = id /\ \A l \in (j + 1)..Len(ns) : ns[l].id # id
            group == GroupPlaces(ns, ns[i].node_type)
            num_nodes == Cardinality(group)
            slot == Cardinality({ j \in group : j < i })
            y_position == LayerOf(ns[i].node_type) * 100
        IN  IF num_nodes = 1
              THEN <<"hierarchical", y_position, 0, 0, 1>>
              ELSE <<"hierarchical", y_position, 50 + num_nodes * 5, slot, num_nodes>>]

\* a.importance_score > b.importance_score, on fractions
ScoreGreater(a, b) == a.num * b.den > b.num * a.den

\* the nodes left in list order
SortedByImportance_ListOrder(ns, left) == SetToSortedSeq(left)

\* sorted(nodes, key=importance_score, reverse=True): a stable sort; the
\* result lists the places of ns in sorted order
RECURSIVE SortedByImportance(_, _)
SortedByImportance(ns, left) ==
    IF left = {} THEN << >>
    ELSE LET first == CHOOSE i \in left : \A j \in left \ {i} :
                          \/ ScoreGreater(ns[i].importance_score, ns[j].importance_score)
                          \/ /\ ~ScoreGreater(ns[j].importance_score, ns[i].importance_score)
                             /\ i < j
         IN  <<first>> \o SortedByImportance(ns, left \ {first})

\* nodes per circle of the circular layout
CircleSize == 12

\* _circular_layout: concentric circles of at most CircleSize nodes, in
\* order of importance. A position is <<strategy, y, radius, slot, slots>>.
CircularLayout(ns, es) ==
    IF Len(ns) = 0 THEN << >>
    ELSE LET sorted_nodes == SortedByImportance(ns, 1..Len(ns))
             num == Len(sorted_nodes)
         IN  [id \in NodeIdsOf(ns) |->
                LET r == CHOOSE j \in 1..num :
                            ns[sorted_nodes[j]].id = id
                            /\ \A l \in (j + 1)..num : ns[sorted_nodes[l]].id # id
                    circle_idx == (r - 1) \div CircleSize
                    in_circle == IF (circle_idx + 1) * CircleSize <= num
                                   THEN CircleSize
                                   ELSE num - circle_idx * CircleSize
                IN  <<"circular", circle_idx * 20, 50 + circle_idx * 80,
                      (r - 1) % CircleSize, in_circle>>]

\* a position taken from nx.spring_layout; the coordinates are not modelled
SpringPosition == <<"spring">>

\* _spring_layout: a graph of the listed nodes and of the edges' endpoints
\* is laid out, and the listed nodes found in that layout get a position
SpringLayout(ns, es) ==
    LET pos_2d == CreateNetworkxGraph(ns, es).nodes
    IN  [id \in { v \in NodeIdsOf(ns) : v \in pos_2d } |-> SpringPosition]

\* the force-directed KeyError, and the spring strategy refusing the null graph
GenerateLayoutRaises_NullGraphRaises(ns, es, name) ==
    \/ LayoutAlgorithm(name) = "force_directed" /\ ForceDirectedRaises(ns, es)
    \/ LayoutAlgorithm(name) = "spring" /\ ns = << >> /\ es = << >>

\* `return await self.layout_algorithms[algorithm](nodes, edges)`: does the
\* selected strategy raise
GenerateLayoutRaises(ns, es, name) ==
    LayoutAlgorithm(name) = "force_directed" /\ ForceDirectedRaises(ns, es)

\* ... and the mapping it returns when it does not
Generate3dLayout(ns, es, name) ==
    CASE LayoutAlgorithm(name) = "force_directed" -> ForceDirectedLayout(ns, es)
      [] LayoutAlgorithm(name) = "hierarchical" -> HierarchicalLayout(ns, es)
      [] LayoutAlgorithm(name) = "circular" -> CircularLayout(ns, es)
      [] LayoutAlgorithm(name) = "spring" -> SpringLayout(ns, es)

\* the layout stage writing each position onto its node as soon as it has it
LayoutOk_WritesPositions ==
    /\ pc = "analyzed"
    /\ ~GenerateLayoutRaises(nodes, edges, algorithm)
    /\ layout' = Generate3dLayout(nodes, edges, algorithm)
    /\ nodes' = [i \in 1..Len(nodes) |->
                    [nodes[i] EXCEPT !.position = layout'[nodes[i].id]]]
    /\ pc' = "laid_out"
    /\ UNCHANGED <<max_nodes, sim, algorithm, logged, papers_data, edges, node_ids,
                   p, k, nx_graph, analysis, clusters, importance_scores,
                   graph_data, sink_vars>>

LayoutOk ==
    /\ pc = "analyzed"
    /\ ~GenerateLayoutRaises(nodes, edges, algorithm)
    /\ layout' = Generate3dLayout(nodes, edges, algorithm)
    /\ pc' = "laid_out"
    /\ UNCHANGED <<max_nodes, sim, algorithm, logged, builder_vars, nx_graph, analysis, clusters,
                   importance_scores, graph_data, sink_vars>>

\* the KeyError caught by the layout stage, the build going on without
\* positions
LayoutRaise_Swallowed ==
    /\ pc = "analyzed"
    /\ GenerateLayoutRaises(nodes, edges, algorithm)
    /\ layout' = << >>
    /\ pc' = "laid_out"
    /\ logged' = logged \cup {"layout"}
    /\ UNCHANGED <<max_nodes, sim, algorithm, builder_vars, nx_graph, analysis, clusters,
                   importance_scores, graph_data, sink_vars>>

\* the KeyError leaves the session block and the build
LayoutRaise ==
    /\ pc = "analyzed"
    /\ GenerateLayoutRaises(nodes, edges, algorithm)
    /\ pc' = "raised"
    /\ session' = SessionAfterRaise(session)
    /\ logged' = logged \cup {"building knowledge graph"}
    /\ UNCHANGED <<max_nodes, sim, algorithm, builder_vars, enrich_vars, graph_data, db_graphs>>

(* ----------------------- _detect_research_clusters --------------------- *)
RECURSIVE Partitions(_)
Partitions(S) ==
    IF S = {} THEN { {} }
    ELSE LET x == CHOOSE y \in S : TRUE
         IN  UNION { { P \cup {{x}} } \cup { (P \ {B}) \cup {B \cup {x}} : B \in P } :
                     P \in Partitions(S \ {x}) }

\* what nx_comm.louvain_communities(graph) can return: a partition of the
\* graph's nodes; nodes are only ever merged along edges, so a community
\* never spans two connected components: a partition of each component
RECURSIVE ComponentwisePartitions(_)
ComponentwisePartitions(comps) ==
    IF comps = {} THEN { {} }
    ELSE LET C == CHOOSE c \in comps : TRUE
         IN  { P \cup Q : P \in Partitions(C),
                          Q \in ComponentwisePartitions(comps \ {C}) }

\* an isolated node is a community of its own; the other components are
\* partitioned one by one
LouvainOutcomes(G) ==
    LET isolated == { C \in Components(G) : Cardinality(C) = 1 }
    IN  { isolated \cup Q : Q \in ComponentwisePartitions(Components(G) \ isolated) }

\* a set as a list, in some order
RECURSIVE SeqOfSet(_)
SeqOfSet(S) ==
    IF S = {} THEN << >>
    ELSE LET x == CHOOSE y \in S : TRUE
         IN  <<x>> \o SeqOfSet({ y \in S : y # x })

\* the list the communities come in: in the order in which the node list
\* (the order the graph was filled in) first meets them; communities made
\* of endpoints that are not listed come last
CommunityList(P, ns) ==
    LET listed == { C \in P : C \cap NodeIdsOf(ns) # {} }
        home == [i \in 1..Len(ns) |-> CHOOSE C \in P : ns[i].id \in C]
        starts == { i \in 1..Len(ns) : \A j \in 1..(i - 1) : home[j] # home[i] }
        nth == [r \in 1..Cardinality(starts) |->
                   CHOOSE i \in starts : Cardinality({ j \in starts : j < i }) = r - 1]
    IN  [r \in 1..Cardinality(starts) |-> home[nth[r]]] \o SeqOfSet(P \ listed)

\* number of entries of the colour palette
PaletteSize == 7

\* GraphCluster(...) for the i-th community (0-based i, as enumerate gives it)
GraphCluster(i, community) ==
    [id |-> <<"cluster", i>>, nodes |-> community, color |-> i % PaletteSize,
     size |-> Cardinality(community)]

\* the size test left out: every community becomes a cluster
SkipCommunity_KeepsAll(community) == FALSE

\* `if len(community) < 2: continue`
SkipCommunity(community) == Cardinality(community) < 2

\* max(set(node_types), ...) raises on a community none of whose members is listed
NamingRaises(community, ns) == community \cap NodeIdsOf(ns) = {}

\* the loop over enumerate(communities) from place i on: a cluster for every
\* community that is not skipped, numbered by the community's place
ClustersFrom(communities, i, ns) ==
    LET kept == SetToSortedSeq({ j \in i..Len(communities) :
                                   ~SkipCommunity(communities[j]) })
    IN  [n \in 1..Len(kept) |-> GraphCluster(kept[n] - 1, communities[kept[n]])]

\* the loop reaches a community whose naming raises
ClusterLoopRaises(communities, ns) ==
    \E i \in 1..Len(communities) :
        ~SkipCommunity(communities[i]) /\ NamingRaises(communities[i], ns)

\* the try block given the communities found: the clusters, or [] from
\* the except branch
DetectResearchClusters(communities, ns) ==
    IF ClusterLoopRaises(communities, ns)
      THEN << >>
      ELSE ClustersFrom(communities, 1, ns)

DetectClusters ==
    /\ pc = "laid_out"
    /\ \E communities \in { CommunityList(P, nodes) : P \in LouvainOutcomes(nx_graph) } :
          /\ clusters' = DetectResearchClusters(communities, nodes)
          /\ logged' = IF ClusterLoopRaises(communities, nodes)
                          THEN logged \cup {"cluster detection"} ELSE logged
    /\ pc' = "clustered"
    /\ UNCHANGED <<max_nodes, sim, algorithm, builder_vars, nx_graph, analysis, layout,
                   importance_scores, graph_data, sink_vars>>

\* the exception of the detector leaving the build
DetectClustersFail_Aborts ==
    /\ pc = "laid_out"
    /\ pc' = "raised"
    /\ session' = SessionAfterRaise(session)
    /\ logged' = logged \cup {"cluster detection", "building knowledge graph"}
    /\ UNCHANGED <<max_nodes, sim, algorithm, builder_vars, enrich_vars, graph_data,
                   db_graphs>>

\* an exception inside the try block (e.g. the community module is missing):
\* logged, and the empty list is returned
DetectClustersFail ==
    /\ pc = "laid_out"
    /\ clusters' = << >>
    /\ pc' = "clustered"
    /\ logged' = logged \cup {"cluster detection"}
    /\ UNCHANGED <<max_nodes, sim, algorithm, builder_vars, nx_graph, analysis, layout,
                   importance_scores, graph_data, sink_vars>>

(* ---------------------- _calculate_node_importance --------------------- *)
\* denominators of the shortest-path fractions divide this
PathScale == 12

\* degree as nx counts it: a self-loop counts twice
Degree(G, v) ==
    Cardinality(Neighbors(G, v) \ {v}) + (IF {v} \in G.edges THEN 2 ELSE 0)

\* PathScale times the sum, over unordered pairs {s, t} not containing v, of
\* the fraction of shortest s-t paths through v
RECURSIVE PairSum(_, _, _)
PairSum(G, v, pairs) ==
    IF pairs = {} THEN 0
    ELSE LET pr == CHOOSE x \in pairs : TRUE
             s == CHOOSE x \in pr : TRUE
             t == CHOOSE x \in pr : x # s
             through == IF Dist(G, s, t) > 0
                           /\ Dist(G, s, v) + Dist(G, v, t) = Dist(G, s, t)
                           /\ Dist(G, s, v) > 0 /\ Dist(G, v, t) > 0
                          THEN Sigma(G, s, v) * Sigma(G, v, t) ELSE 0
             frac == IF through = 0 THEN 0
                     ELSE (PathScale * through) \div Sigma(G, s, t)
         IN  frac + PairSum(G, v, pairs \ {pr})

\* a pair with an end outside v's component has no path through v
BetweennessScaled(G, v) ==
    PairSum(G, v, { pr \in { {s, t} : s, t \in Component(G, v) \ {v} } :
                      Cardinality(pr) = 2 })

\* 0.6 * degree_centrality + 0.4 * betweenness_centrality as a fraction
\* [num, den]: degree centrality is 1 on a one-node graph and deg/(n-1)
\* otherwise; betweenness is rescaled by 2/((n-1)(n-2)) when n > 2
ImportanceScore(G, v) ==
    LET n == Cardinality(G.nodes)
    IN  IF n = 1 THEN [num |-> 6, den |-> 10]
        ELSE IF n = 2 THEN [num |-> 6 * Degree(G, v) + 4 * BetweennessScaled(G, v),
                            den |-> 10]
        ELSE [num |-> 6 * Degree(G, v) * (n - 2) * PathScale
                        + 8 * BetweennessScaled(G, v),
              den |-> 10 * (n - 1) * (n - 2) * PathScale]

CalculateNodeImportance(G) == [v \in G.nodes |-> ImportanceScore(G, v)]

CalculateImportance ==
    /\ pc = "clustered"
    /\ importance_scores' = CalculateNodeImportance(nx_graph)
    /\ pc' = "scored"
    /\ UNCHANGED <<max_nodes, sim, algorithm, logged, builder_vars, nx_graph, analysis, layout,
                   clusters, graph_data, sink_vars>>

\* an exception inside the try block: logged, and {} is returned
CalculateImportanceFail ==
    /\ pc = "clustered"
    /\ importance_scores' = << >>
    /\ pc' = "scored"
    /\ logged' = logged \cup {"calculating node importance"}
    /\ UNCHANGED <<max_nodes, sim, algorithm, builder_vars, nx_graph, analysis, layout,
                   clusters, graph_data, sink_vars>>

(* ------------------- assembly: update nodes, graph_data ---------------- *)
\* the membership test left out: the id of the first cluster, whoever asks
FindNodeCluster_FirstCluster(node_id, cl) ==
    IF cl = << >> THEN None ELSE Head(cl).id

\* _find_node_cluster: the id of the first cluster listing the node
RECURSIVE FindNodeCluster(_, _)
FindNodeCluster(node_id, cl) ==
    IF cl = << >> THEN None
    ELSE IF node_id \in Head(cl).nodes THEN Head(cl).id
    ELSE FindNodeCluster(node_id, Tail(cl))

\* dict.get(key, default)
Get(f, key, default) == IF key \in DOMAIN f THEN f[key] ELSE default

\* the body of `for node in nodes:` for one node
UpdatedNode(node) ==
    [node EXCEPT !.position = Get(layout, node.id, Origin),
                 !.importance_score = Get(importance_scores, node.id, ZeroScore),
                 !.cluster_id = FindNodeCluster(node.id, clusters)]

UpdateNodes ==
    /\ pc = "scored"
    /\ nodes' = [i \in 1..Len(nodes) |-> UpdatedNode(nodes[i])]
    /\ pc' = "updated"
    /\ UNCHANGED <<max_nodes, sim, algorithm, logged, papers_data, edges, node_ids, p, k, enrich_vars,
                   graph_data, sink_vars>>

\* the caller's user_id
UserId == "user"
\* f"kg_{user_id}_{timestamp}": the id the graph object is created with
LocalGraphId == <<"kg", UserId, "timestamp">>
\* str(kg.id): the primary key the store assigns to the row
StoredGraphId == <<"uuid", 1>>

SerializeNode(node) ==
    [id |-> node.id, type |-> node.node_type, position |-> node.position,
     cluster |-> node.cluster_id, importance |-> node.importance_score]

SerializeEdge(edge) ==
    [source |-> edge.source, target |-> edge.target, type |-> edge.edge_type,
     weight10 |-> edge.weight10]

GraphData ==
    [id |-> LocalGraphId,
     metadata |-> [created_by |-> UserId, node_count |-> Len(nodes),
                   edge_count |-> Len(edges), cluster_count |-> Len(clusters)],
     nodes |-> [i \in 1..Len(nodes) |-> SerializeNode(nodes[i])],
     edges |-> [i \in 1..Len(edges) |-> SerializeEdge(edges[i])],
     clusters |-> clusters,
     analysis |-> analysis,
     layout_algorithm |-> "force_directed"]

PrepareResponse ==
    /\ pc = "updated"
    /\ graph_data' = GraphData
    /\ pc' = "prepared"
    /\ UNCHANGED <<max_nodes, sim, algorithm, logged, builder_vars, enrich_vars, sink_vars>>

(* -------------------------- _save_knowledge_graph ---------------------- *)
\* KnowledgeGraph(...): the row built from the graph object
KnowledgeGraphRow(gd, user_id) ==
    [id |-> StoredGraphId, nodes |-> gd.nodes, edges |-> gd.edges,
     created_by_id |-> user_id, is_public |-> FALSE]

\* the id the graph object carries once the row is committed
IdAfterCommit(kg) == kg.id

\* the sink also recounting the metadata of the graph object it was handed
SaveOk_RecountsMetadata ==
    /\ pc = "prepared"
    /\ LET kg == KnowledgeGraphRow(graph_data, UserId)
       IN  /\ db_graphs' = db_graphs \cup {kg}
           /\ graph_data' = [graph_data EXCEPT !.id = IdAfterCommit(kg),
                                                !.metadata.cluster_count = @ + 1]
    /\ session' = [session EXCEPT !.add_calls = @ + 1, !.committed = "ok"]
    /\ pc' = "save_returned"
    /\ UNCHANGED <<max_nodes, sim, algorithm, logged, builder_vars, enrich_vars>>

\* session.add(kg); await session.commit() succeeds; the id is written back
SaveOk ==
    /\ pc = "prepared"
    /\ LET kg == KnowledgeGraphRow(graph_data, UserId)
       IN  /\ db_graphs' = db_graphs \cup {kg}
           /\ graph_data' = [graph_data EXCEPT !.id = IdAfterCommit(kg)]
    /\ session' = [session EXCEPT !.add_calls = @ + 1, !.committed = "ok"]
    /\ pc' = "save_returned"
    /\ UNCHANGED <<max_nodes, sim, algorithm, logged, builder_vars, enrich_vars>>

\* the except branch only logging
SaveExcept_NoRollback(s) == s

\* what the except branch of _save_knowledge_graph does to the session:
\* log, `await session.rollback()`, and no re-raise
SaveExcept(s) == [s EXCEPT !.new = << >>, !.rollback_calls = @ + 1]

\* the except branch of _save_knowledge_graph re-raising after the rollback
SaveFail_Reraises ==
    /\ pc = "prepared"
    /\ session' = SessionAfterRaise(SaveExcept([session EXCEPT
                                !.add_calls = @ + 1, !.committed = "raised"]))
    /\ pc' = "raised"
    /\ logged' = logged \cup {"saving knowledge graph"}
    /\ UNCHANGED <<max_nodes, sim, algorithm, builder_vars, enrich_vars, graph_data, db_graphs>>

\* session.add(kg); await session.commit() raises
SaveFail ==
    /\ pc = "prepared"
    /\ session' = SaveExcept([session EXCEPT
                                !.new = Append(@, KnowledgeGraphRow(graph_data, UserId)),
                                !.add_calls = @ + 1, !.committed = "raised"])
    /\ pc' = "save_returned"
    /\ logged' = logged \cup {"saving knowledge graph"}
    /\ UNCHANGED <<max_nodes, sim, algorithm, builder_vars, enrich_vars, graph_data, db_graphs>>

\* `return graph_data`; the session block is left normally and closes
ReturnGraph ==
    /\ pc = "save_returned"
    /\ pc' = "returned"
    /\ session' = [session EXCEPT !.closed = TRUE]
    /\ UNCHANGED <<max_nodes, sim, algorithm, logged, builder_vars, enrich_vars, graph_data, db_graphs>>

(* ------------------------------- the build ----------------------------- *)
Next ==
    \/ QueryOk
    \/ QueryFail
    \/ AdmitPaper
    \/ PapersEnd
    \/ ExpandAuthor
    \/ AuthorsEnd
    \/ ExpandKeyword
    \/ KeywordsEnd
    \/ CitePaper
    \/ CollectReturn
    \/ BuildNetworkx
    \/ Analyze
    \/ LayoutOk
    \/ LayoutRaise
    \/ DetectClusters
    \/ DetectClustersFail
    \/ CalculateImportance
    \/ CalculateImportanceFail
    \/ UpdateNodes
    \/ PrepareResponse
    \/ SaveOk
    \/ SaveFail
    \/ ReturnGraph

Spec == Init /\ [][Next]_vars

(* ------------- the stages applied to bounded node and edge lists ------- *)
\* node ids the lists are drawn from: papers and one author
UnitPool ==
    [i \in 1..MaxBudget |->
        IF i < MaxBudget THEN PaperNodeId(i) ELSE AuthorNodeId(1)]

\* node lists: distinct nodes, as the builder creates them
UnitNodeLists ==
    { [j \in 1..Len(SetToSortedSeq(S)) |->
          GraphNode(UnitPool[SetToSortedSeq(S)[j]], UnitPool[SetToSortedSeq(S)[j]][1])] :
      S \in SUBSET (1..MaxBudget) }

UnitEdge(s, t) ==
    GraphEdge(s, t, IF "author" \in {s[1], t[1]} THEN "authored_by" ELSE "cites", 10)

MaxUnitEdges == MaxBudget \div 2

\* edge lists: between any two ids of the pool, listed or not, loops included
UnitEdgeLists ==
    SeqsUpTo({ UnitEdge(UnitPool[i], UnitPool[j]) : i, j \in 1..MaxBudget },
             MaxUnitEdges)

\* algorithm names a caller can pass: the registered ones and another one
AlgorithmNames == layout_algorithms \cup {"radial"}

StageInit ==
    /\ max_nodes = MaxBudget
    /\ algorithm \in AlgorithmNames
    /\ logged = {}
    /\ pc = "collected"
    /\ papers_data = << >>
    /\ nodes \in UnitNodeLists
    /\ edges \in UnitEdgeLists
    /\ node_ids = NodeIdsOf(nodes)
    /\ p = 1
    /\ k = 1
    /\ nx_graph = Unset
    /\ analysis = Unset
    /\ layout = Unset
    /\ sim = NoSim
    /\ clusters = Unset
    /\ importance_scores = Unset
    /\ graph_data = Unset
    /\ session = [NewSession EXCEPT !.executed = "ok"]
    /\ db_graphs = {}

StageNext ==
    \/ BuildNetworkx
    \/ Analyze
    \/ LayoutOk
    \/ LayoutRaise

StageSpec == StageInit /\ [][StageNext]_vars

(* ------------- the layout strategies applied to typed, scored nodes ---- *)
\* the values of NodeType
NodeTypes ==
    {"paper", "author", "concept", "institution", "journal", "keyword", "gene",
     "protein", "disease", "drug", "method"}

MaxTypedNodes == MaxBudget - 1

\* a node list of any types, ids made distinct by the place in the list
TypedNodeList(t) == [i \in DOMAIN t |-> GraphNode(<<t[i], i>>, t[i])]

\* importance scores a node can carry into a layout: 0.0 and 0.5
ScoreValues == {ZeroScore, [num |-> 1, den |-> 2]}

\* enough nodes to fill one circle and start the next
MaxRingNodes == CircleSize + MaxBudget \div 4

\* a list of paper nodes with scores
ScoredNodeList(sc) ==
    [i \in DOMAIN sc |->
        [GraphNode(PaperNodeId(i), "paper") EXCEPT !.importance_score = sc[i]]]

LayoutInit ==
    /\ max_nodes = MaxBudget
    /\ algorithm \in AlgorithmNames
    /\ logged = {}
    /\ pc = "analyzed"
    /\ papers_data = << >>
    /\ \/ \E n \in 0..MaxTypedNodes : \E t \in [1..n -> NodeTypes] :
              nodes = TypedNodeList(t)
       \/ \E n \in 0..MaxRingNodes : \E sc \in [1..n -> ScoreValues] :
              nodes = ScoredNodeList(sc)
    /\ edges = << >>
    /\ node_ids = NodeIdsOf(nodes)
    /\ p = 1
    /\ k = 1
    /\ nx_graph = CreateNetworkxGraph(nodes, edges)
    /\ analysis = AnalyzeGraphStructure(nx_graph)
    /\ layout = Unset
    /\ sim = NoSim
    /\ clusters = Unset
    /\ importance_scores = Unset
    /\ graph_data = Unset
    /\ session = [NewSession EXCEPT !.executed = "ok"]
    /\ db_graphs = {}

LayoutNext == LayoutOk

LayoutSpec == LayoutInit /\ [][LayoutNext]_vars

(* ------------ _force_directed_layout, one iteration at a time ---------- *)
\* Lengths are counted in steps, Resolution steps making up the temperature
\* of the iteration they are measured in. The temperature itself is
\* start * 0.95 ^ cooled, kept as the pair [start, cooled].
Resolution == MaxBudget \div 2

\* force magnitudes: none, below the temperature, equal to it, above it
ForceMagnitudes == 0..(2 * Resolution)

\* every node moved by the whole net force
Displacement_Uncapped(force_magnitude) == force_magnitude

\* `if force_magnitude > 0: displacement = min(force_magnitude, temperature)`
Displacement(force_magnitude) ==
    IF force_magnitude > 0
      THEN IF force_magnitude < Resolution THEN force_magnitude ELSE Resolution
      ELSE 0

\* the net forces one iteration can compute: the start positions are
\* random, so any magnitude can come up; forces come in opposite pairs, so
\* a lone node has none and the forces on two nodes are equally strong
NetForces(ns) ==
    { f \in [NodeIdsOf(ns) -> ForceMagnitudes] :
        /\ Cardinality(NodeIdsOf(ns)) = 1 => \A id \in NodeIdsOf(ns) : f[id] = 0
        /\ Cardinality(NodeIdsOf(ns)) = 2 => \A a, b \in NodeIdsOf(ns) : f[a] = f[b] }

\* the frame before the first iteration: iterations done, temperature, and
\* how far each node moved in the latest iteration
StartedSim(ns) ==
    [iteration |-> 0,
     temperature |-> [start |-> 100, cooled |-> 0],
     moved |-> [id \in NodeIdsOf(ns) |-> 0]]

\* one pass of `for iteration in range(iterations)`: forces, moves, cooling
SimIterate ==
    /\ pc = "simulating"
    /\ sim.iteration < Iterations
    /\ ~ForceDirectedRaises(nodes, edges)
    /\ \E force \in NetForces(nodes) :
          sim' = [iteration |-> sim.iteration + 1,
                  temperature |-> [sim.temperature EXCEPT !.cooled = @ + 1],
                  moved |-> [id \in NodeIdsOf(nodes) |-> Displacement(force[id])]]
    /\ UNCHANGED <<max_nodes, algorithm, logged, pc, builder_vars, enrich_vars,
                   graph_data, sink_vars>>

\* the attraction loop meeting an edge whose endpoint has no position
SimRaise ==
    /\ pc = "simulating"
    /\ sim.iteration < Iterations
    /\ ForceDirectedRaises(nodes, edges)
    /\ pc' = "raised"
    /\ session' = SessionAfterRaise(session)
    /\ logged' = logged \cup {"building knowledge graph"}
    /\ UNCHANGED <<max_nodes, sim, algorithm, builder_vars, enrich_vars, graph_data,
                   db_graphs>>

\* `return positions` when the range is used up: the caller's layout is the
\* dictionary the simulation worked on
SimReturn ==
    /\ pc = "simulating"
    /\ sim.iteration = Iterations
    /\ pc' = "laid_out"
    /\ UNCHANGED <<max_nodes, sim, algorithm, logged, builder_vars, enrich_vars,
                   graph_data, sink_vars>>

\* edge lists of the simulated inputs: no edge, or one edge between two of
\* the papers 1..MaxPapers + 1, the last of which is never listed
SimEdgeLists ==
    {<< >>} \cup { <<UnitEdge(PaperNodeId(i), PaperNodeId(j))>> : i, j \in 1..(MaxPapers + 1) }

\* the simulation called by the layout stage, its positions drawn and its
\* parameters set
ForceInit ==
    /\ max_nodes = MaxBudget
    /\ algorithm \in { name \in AlgorithmNames : LayoutAlgorithm(name) = "force_directed" }
    /\ logged = {}
    /\ pc = "simulating"
    /\ papers_data = << >>
    /\ \E n \in 0..MaxPapers : nodes = [i \in 1..n |-> GraphNode(PaperNodeId(i), "paper")]
    /\ edges \in SimEdgeLists
    /\ node_ids = NodeIdsOf(nodes)
    /\ p = 1
    /\ k = 1
    /\ nx_graph = CreateNetworkxGraph(nodes, edges)
    /\ analysis = AnalyzeGraphStructure(nx_graph)
    /\ layout = ForceDirectedLayout(nodes, edges)
    /\ sim = StartedSim(nodes)
    /\ clusters = Unset
    /\ importance_scores = Unset
    /\ graph_data = Unset
    /\ session = [NewSession EXCEPT !.executed = "ok"]
    /\ db_graphs = {}

ForceNext ==
    \/ SimIterate
    \/ SimRaise
    \/ SimReturn

\* the coroutine has no await inside: once called it runs to its end. Every
\* step of it changes the position of the build or the iteration count.
ForceSpec == ForceInit /\ [][ForceNext]_vars /\ WF_<<pc, sim.iteration>>(ForceNext)

(* ----------------- a build over a store of many papers ----------------- *)
\* the fewest nodes the analysis reports counts for: the size of the sample
\* of betweenness pivots
ReportedSize == BetweennessPivots

\* citation rows of the first paper: none, one to the second paper, or the
\* same one recorded twice; of the second paper: none, or one to the first
FirstPaperCites == {<< >>, <<2>>, <<2, 2>>}
SecondPaperCites == {<< >>, <<1>>}

\* n papers without authors and keywords; only the first two cite
ManyPapers(n, c1, c2) ==
    [i \in 1..n |->
        [id |-> i, authors |-> << >>, keywords |-> << >>,
         citations_made |-> IF i = 1 THEN c1 ELSE IF i = 2 THEN c2 ELSE << >>]]

\* the paper query has returned, with a budget whose LIMIT lets
\* ReportedSize papers through
LargeInit ==
    /\ max_nodes = 2 * ReportedSize
    /\ algorithm = BuildAlgorithm
    /\ logged = {}
    /\ pc = "papers"
    /\ \E n \in {ReportedSize - 1, ReportedSize} :
          \E c1 \in FirstPaperCites, c2 \in SecondPaperCites :
              /\ n <= PaperLimit(max_nodes)
              /\ papers_data = ManyPapers(n, c1, c2)
    /\ nodes = << >>
    /\ edges = << >>
    /\ node_ids = {}
    /\ p = 1
    /\ k = 1
    /\ nx_graph = Unset
    /\ analysis = Unset
    /\ layout = Unset
    /\ sim = NoSim
    /\ clusters = Unset
    /\ importance_scores = Unset
    /\ graph_data = Unset
    /\ session = [NewSession EXCEPT !.executed = "ok"]
    /\ db_graphs = {}

\* the steps of the build such a store leads through
LargeNext ==
    \/ AdmitPaper
    \/ PapersEnd
    \/ AuthorsEnd
    \/ KeywordsEnd
    \/ CitePaper
    \/ CollectReturn
    \/ BuildNetworkx
    \/ Analyze
    \/ LayoutOk
    \/ DetectClusters
    \/ DetectClustersFail
    \/ CalculateImportance
    \/ CalculateImportanceFail
    \/ UpdateNodes
    \/ PrepareResponse
    \/ SaveOk
    \/ SaveFail
    \/ ReturnGraph

LargeSpec == LargeInit /\ [][LargeNext]_vars

(* ------------------------------ properties ----------------------------- *)
Range(f) == { f[i] : i \in DOMAIN f }

\* C1: the builder never holds more than max_nodes nodes, after every
\* admission step (also in the middle of a paper's expansion) and on return
C1_NodeBudgetIsCeiling == Len(nodes) <= max_nodes

\* the budget is full in the middle of a paper's author expansion, and an
\* author of that paper has been refused
C1_Witness_RefusedMidExpansion ==
    /\ pc = "authors"
    /\ k > 1
    /\ Len(nodes) = max_nodes
    /\ \E i \in 1..Len(edges) : edges[i].source \notin node_ids

\* C2: in every graph object a build returns, both endpoints of every edge
\* are ids of returned nodes
C2_ReturnedEdgesHaveEndpoints ==
    pc = "returned" =>
        \A i \in 1..Len(graph_data.edges) :
            /\ graph_data.edges[i].source \in NodeIdsOf(graph_data.nodes)
            /\ graph_data.edges[i].target \in NodeIdsOf(graph_data.nodes)

\* a build that used its whole budget returns a graph with edges
C2_Witness_ReturnedAtFullBudget ==
    /\ pc = "returned"
    /\ Len(graph_data.edges) > 0
    /\ Len(graph_data.nodes) = max_nodes

\* C3: in the lists _collect_graph_data returns, both endpoints of every
\* edge are ids of listed nodes (an edge to a refused node is not kept)
C3_BuilderEdgesHaveEndpoints ==
    pc = "collected" =>
        \A i \in 1..Len(edges) :
            /\ edges[i].source \in NodeIdsOf(nodes)
            /\ edges[i].target \in NodeIdsOf(nodes)

AuthoredByEdges(paper_id) ==
    { i \in 1..Len(edges) :
        edges[i].edge_type = "authored_by" /\ edges[i].target = paper_id }

\* C4: a paper has as many authored-by edges as it has authors with a node;
\* one paper with two authors under a budget of 2 gives the paper, its first
\* author and one authored-by edge
C4_AuthoredByEdgesMatchAdmittedAuthors ==
    pc = "collected" =>
        /\ \A i \in 1..Len(papers_data) :
              PaperNodeId(papers_data[i].id) \in node_ids =>
                 Cardinality(AuthoredByEdges(PaperNodeId(papers_data[i].id)))
                   = Cardinality({ a \in Range(papers_data[i].authors) :
                                     AuthorNodeId(a) \in node_ids })
        /\ (max_nodes = 2 /\ Len(papers_data) = 1 /\ Len(papers_data[1].authors) = 2) =>
              /\ [i \in 1..Len(nodes) |-> nodes[i].id]
                   = <<PaperNodeId(papers_data[1].id),
                       AuthorNodeId(papers_data[1].authors[1])>>
              /\ Cardinality(AuthoredByEdges(PaperNodeId(papers_data[1].id))) = 1

\* the sections every graph object has
GraphSections == {"nodes", "edges", "clusters", "analysis", "metadata"}

\* C5: once the papers were fetched the build returns a graph object with
\* all its sections; it raises only when the fetch failed
C5_RaisesOnlyWhenFetchFails ==
    /\ pc = "raised" => session.executed = "raised"
    /\ pc = "returned" => GraphSections \subseteq DOMAIN graph_data

\* C6: a failing data-store query makes the build raise: no graph object,
\* nothing added to the session, nothing committed
C6_QueryFailureAbortsBuild ==
    session.executed = "raised" =>
        /\ pc = "raised"
        /\ graph_data = Unset
        /\ session.add_calls = 0
        /\ session.committed = "no"
        /\ db_graphs = {}

\* the query has failed and the build has raised
C6_Witness_QueryFailed == session.executed = "raised" /\ pc = "raised"

\* C7: when storing the snapshot fails the session is rolled back, no row
\* of it is committed, and the build goes on to return the graph object
C7_SaveFailureRollsBackAndReturns ==
    session.committed = "raised" =>
        /\ session.rollback_calls >= 1
        /\ session.new = << >>
        /\ db_graphs = {}
        /\ pc \in {"save_returned", "returned"}
        /\ pc = "save_returned" => ENABLED ReturnGraph
        /\ GraphSections \subseteq DOMAIN graph_data

\* the commit has failed and _save_knowledge_graph has come back
C7_Witness_RolledBack ==
    /\ session.committed = "raised"
    /\ pc = "save_returned"
    /\ Len(graph_data.nodes) > 0

\* the graph object carries an id
HasIdentity(gd) == gd.id # None

\* C8: the returned graph object carries an identity exactly when the
\* snapshot was committed, and none when the write failed
C8_IdentityPresentIffSaved ==
    pc = "returned" => (HasIdentity(graph_data) <=> session.committed = "ok")

\* C9 as stated: a build never returns normally with a graph that was not
\* saved
C9_NoReturnWithUnsavedGraph ==
    pc = "returned" => session.committed = "ok"

\* C9, amended: a failure of the sink is not surfaced; the build returns
\* normally, and the unsaved graph keeps the id it was created with
C9_SinkFailureIsSwallowed ==
    session.committed = "raised" =>
        /\ pc # "raised"
        /\ pc = "returned" =>
              /\ graph_data.id = LocalGraphId
              /\ \A row \in db_graphs : row.id # graph_data.id

\* a build has returned normally after the sink failed
C9_Witness_ReturnedUnsaved == pc = "returned" /\ session.committed = "raised"

\* clusters are made of at least two listed nodes
ClustersWellFormed(cl, ns) ==
    \A i \in 1..Len(cl) :
        /\ cl[i].size >= 2
        /\ Cardinality(cl[i].nodes) >= 2
        /\ cl[i].nodes \subseteq NodeIdsOf(ns)

InSomeCluster(v, cl) == \E i \in 1..Len(cl) : v \in cl[i].nodes

\* C10: every cluster the detector returns has at least two members, all of
\* them listed nodes, and a node whose community is a singleton (an isolated
\* node, for one) is in no cluster
C10_ClustersHaveTwoListedMembers ==
    /\ pc = "laid_out" =>
          \A P \in LouvainOutcomes(nx_graph) :
              LET cl == DetectResearchClusters(CommunityList(P, nodes), nodes)
              IN  /\ ClustersWellFormed(cl, nodes)
                  /\ \A B \in P : Cardinality(B) = 1 =>
                        \A v \in B : ~InSomeCluster(v, cl)
    /\ pc \in {"clustered", "scored", "updated"} =>
          /\ ClustersWellFormed(clusters, nodes)
          /\ \A v \in nx_graph.nodes :
                Neighbors(nx_graph, v) \ {v} = {} => ~InSomeCluster(v, clusters)

\* the detector has returned a cluster for a graph that has an isolated node
C10_Witness_ClusterBesideIsolatedNode ==
    /\ pc = "clustered"
    /\ Len(clusters) >= 1
    /\ \E v \in nx_graph.nodes : Neighbors(nx_graph, v) = {}

\* C11: in every returned graph object a node's cluster id is null or the id
\* of a returned cluster that lists the node, and a node that no returned
\* cluster lists has cluster id null
C11_NodeClusterIdsResolve ==
    pc = "returned" =>
        \A i \in 1..Len(graph_data.nodes) :
            LET node == graph_data.nodes[i]
                cl == graph_data.clusters
            IN  /\ node.cluster # None =>
                      \E j \in 1..Len(cl) :
                          cl[j].id = node.cluster /\ node.id \in cl[j].nodes
                /\ ~InSomeCluster(node.id, cl) => node.cluster = None

\* a returned graph with a clustered node beside a node without a cluster
C11_Witness_ClusteredAndUnclustered ==
    /\ pc = "returned"
    /\ \E i \in 1..Len(graph_data.nodes) : graph_data.nodes[i].cluster # None
    /\ \E i \in 1..Len(graph_data.nodes) : graph_data.nodes[i].cluster = None

\* the graph is not the null graph and has one connected component
IsConnectedGraph(G) == G.nodes # {} /\ Cardinality(Components(G)) = 1

\* papers P1, P2, P3 with P1 - P2 and P2 - P3
ThreePaperPath ==
    [nodes |-> {PaperNodeId(1), PaperNodeId(2), PaperNodeId(3)},
     edges |-> {{PaperNodeId(1), PaperNodeId(2)}, {PaperNodeId(2), PaperNodeId(3)}}]

\* C12: for a connected graph the analyzer reports the number of nodes, the
\* number of undirected edges, is_connected = true, one connected component
\* and the longest shortest path as diameter; for the path P1 - P2 - P3 that
\* is 3 nodes, 2 edges, connected, 1 component, diameter 2
C12_AnalyzerReportsConnectedGraph ==
    (pc = "analyzed" /\ IsConnectedGraph(nx_graph)) =>
        /\ {"node_count", "edge_count", "is_connected", "connected_components",
            "diameter"} \subseteq DOMAIN analysis
        /\ analysis.node_count = Cardinality(nx_graph.nodes)
        /\ analysis.edge_count = Cardinality(nx_graph.edges)
        /\ analysis.is_connected = TRUE
        /\ analysis.connected_components = 1
        /\ analysis.diameter
             = MaxOf({ Dist(nx_graph, s, t) : s \in nx_graph.nodes, t \in nx_graph.nodes })
        /\ nx_graph = ThreePaperPath =>
              /\ analysis.node_count = 3
              /\ analysis.edge_count = 2
              /\ analysis.diameter = 2

\* C13: when a computation inside the analyzer fails, the analysis carries
\* the error together with the counts computed before it
C13_FailedAnalysisKeepsCounts ==
    (pc = "analyzed" /\ "error" \in DOMAIN analysis) =>
        {"node_count", "edge_count"} \subseteq DOMAIN analysis

\* every edge of the list joins two listed nodes
EdgesBetweenListedNodes(ns, es) ==
    \A i \in 1..Len(es) :
        es[i].source \in NodeIdsOf(ns) /\ es[i].target \in NodeIdsOf(ns)

\* C14: _generate_3d_layout returns what the strategy registered under the
\* name returns, and what the force-directed strategy returns for any other
\* name; it raises only when the force-directed strategy itself raises
C14_LayoutDispatchesOnName ==
    /\ pc = "laid_out" =>
          layout = CASE algorithm = "hierarchical" -> HierarchicalLayout(nodes, edges)
                     [] algorithm = "circular" -> CircularLayout(nodes, edges)
                     [] algorithm = "spring" -> SpringLayout(nodes, edges)
                     [] OTHER -> ForceDirectedLayout(nodes, edges)
    /\ pc = "raised" =>
          /\ algorithm \notin {"hierarchical", "circular", "spring"}
          /\ ForceDirectedRaises(nodes, edges)

\* a name that is not registered was given, and nodes were laid out
C14_Witness_UnknownNameLaidOut ==
    /\ pc = "laid_out"
    /\ algorithm \notin layout_algorithms
    /\ Len(nodes) >= 2
    /\ \A id \in NodeIdsOf(nodes) : layout[id] = Position

\* C15: with an empty node list and an empty edge list every strategy
\* returns the empty mapping and none raises
C15_EmptyInputGivesEmptyLayout ==
    (nodes = << >> /\ edges = << >>) =>
        /\ pc # "raised"
        /\ pc = "analyzed" => ~GenerateLayoutRaises(nodes, edges, algorithm)
        /\ pc = "laid_out" => DOMAIN layout = {}

\* the spring strategy has returned for the empty lists
C15_Witness_SpringOnEmptyLists ==
    /\ pc = "laid_out"
    /\ algorithm = "spring"
    /\ nodes = << >>
    /\ edges = << >>

\* C16: for every strategy, when all edges join listed nodes the mapping
\* returned has exactly the listed node ids as keys: a node without edges
\* has a position too, and no other id has one
C16_LayoutKeysAreNodeIds ==
    EdgesBetweenListedNodes(nodes, edges) =>
        /\ pc # "raised"
        /\ pc = "analyzed" => ~GenerateLayoutRaises(nodes, edges, algorithm)
        /\ pc = "laid_out" => DOMAIN layout = NodeIdsOf(nodes)

\* the force-directed strategy has laid out a list with an edge and with a
\* node no edge touches
C16_Witness_IsolatedNodeLaidOut ==
    /\ pc = "laid_out"
    /\ LayoutAlgorithm(algorithm) = "force_directed"
    /\ Len(edges) >= 1
    /\ \E id \in NodeIdsOf(nodes) :
          /\ \A i \in 1..Len(edges) : id \notin {edges[i].source, edges[i].target}
          /\ id \in DOMAIN layout

\* the fraction lies in [0, 1]
InUnitInterval(score) == 0 <= score.num /\ score.num <= score.den

\* C17: for every non-empty graph the builder produces, a paper citing
\* itself included, every score _calculate_node_importance returns is in
\* [0, 1]
C17_ImportanceScoresInUnitInterval ==
    (pc = "scored" /\ nx_graph.nodes # {}) =>
        \A v \in DOMAIN importance_scores : InUnitInterval(importance_scores[v])

\* after the cluster stage the build is never stuck short of its return
BuildCanGoOn ==
    /\ pc = "clustered" => ENABLED (CalculateImportanceFail \/ CalculateImportance)
    /\ pc = "scored" => ENABLED UpdateNodes
    /\ pc = "updated" => ENABLED PrepareResponse
    /\ pc = "prepared" => ENABLED (SaveOk \/ SaveFail)
    /\ pc = "save_returned" => ENABLED ReturnGraph

\* C18: an error inside clustering or importance scoring does not abort the
\* build: the failing detector gives the empty cluster list, the failing
\* scorer the empty mapping, the build goes on, and the graph it returns has
\* cluster id null on every node (resp. importance 0.0)
C18_EnrichmentErrorsDoNotAbort ==
    /\ "cluster detection" \in logged =>
          /\ pc # "raised"
          /\ clusters = << >>
          /\ BuildCanGoOn
          /\ pc = "returned" =>
                \A i \in 1..Len(graph_data.nodes) : graph_data.nodes[i].cluster = None
    /\ "calculating node importance" \in logged =>
          /\ pc # "raised"
          /\ importance_scores = << >>
          /\ BuildCanGoOn
          /\ pc = "returned" =>
                \A i \in 1..Len(graph_data.nodes) :
                    graph_data.nodes[i].importance = ZeroScore

\* a build has returned a graph with edges after both the detector and the
\* scorer failed
C18_Witness_ReturnedAfterBothFailed ==
    /\ pc = "returned"
    /\ {"cluster detection", "calculating node importance"} \subseteq logged
    /\ Len(graph_data.nodes) >= 2
    /\ Len(graph_data.edges) >= 1

\* positions of the build inside _collect_graph_data
BuilderPcs == {"query", "papers", "authors", "keywords", "citations"}
\* positions from which the next step is the analysis graph or one of the
\* four enrichment stages
EnrichmentPcs == {"collected", "graphed", "analyzed", "laid_out", "clustered"}
\* positions at which graph_data exists
AssembledPcs == {"prepared", "save_returned", "returned"}

\* no node carries a position, a cluster id or a score yet
NodesUnannotated(ns) ==
    \A i \in 1..Len(ns) :
        /\ ns[i].position = None
        /\ ns[i].cluster_id = None
        /\ ns[i].importance_score = ZeroScore

\* a step taken from an enrichment position changes neither list
StagesLeaveListsAlone ==
    (pc \in EnrichmentPcs) => (nodes' = nodes /\ edges' = edges)

\* outside the builder the node list changes in one step only: the pass
\* that writes every node's three values, right after the last stage
WriteBackIsOnePass ==
    (pc \notin BuilderPcs /\ nodes' # nodes) =>
        (/\ pc = "scored"
         /\ pc' = "updated"
         /\ nodes' = [i \in 1..Len(nodes) |-> UpdatedNode(nodes[i])]
         /\ edges' = edges)

\* C19: no node's position, cluster id or importance is written before the
\* four enrichment stages have completed; the stages leave the node list
\* and the edge list as they are; the write-back is one pass over the nodes,
\* before the graph object is serialized and before anything is persisted
C19_WriteBackAfterAllStages ==
    /\ [](pc \in BuilderPcs \cup EnrichmentPcs \cup {"scored", "raised"}
            => NodesUnannotated(nodes))
    /\ [][StagesLeaveListsAlone]_vars
    /\ [][WriteBackIsOnePass]_vars
    /\ [](pc \in AssembledPcs =>
            graph_data.nodes = [i \in 1..Len(nodes) |-> SerializeNode(nodes[i])])
    /\ []((session.add_calls > 0 \/ db_graphs # {}) =>
            pc \in {"save_returned", "returned"})

\* the write-back has run: every node has its position, and one its cluster
C19_Witness_NodesWrittenBack ==
    /\ pc = "updated"
    /\ Len(nodes) >= 2
    /\ \A i \in 1..Len(nodes) : nodes[i].position = layout[nodes[i].id]
    /\ \E i \in 1..Len(nodes) : nodes[i].cluster_id # None

\* no field of the assembled graph object changes
SnapshotFrozen == (pc \in AssembledPcs) => (graph_data' = graph_data)

\* the sink has been called only with a finished graph object: serialized
\* from the annotated nodes, and stored as it was handed over
HandedOverWhenFinished ==
    (session.add_calls > 0 \/ db_graphs # {}) =>
        /\ pc \in {"save_returned", "returned"}
        /\ graph_data.nodes = [i \in 1..Len(nodes) |-> SerializeNode(nodes[i])]
        /\ \A i \in 1..Len(graph_data.nodes) : graph_data.nodes[i].position # None
        /\ \A row \in db_graphs :
              row.nodes = graph_data.nodes /\ row.edges = graph_data.edges

\* C20 as stated: once the snapshot is assembled and handed to the sink none
\* of its fields changes, and the sink is handed a snapshot only after the
\* enrichment stages and the assembly pass
C20_SnapshotFrozenAfterHandOff ==
    [][SnapshotFrozen]_vars /\ []HandedOverWhenFinished

\* every field but the id stays as assembled; the id changes only in the
\* sink, on a successful commit, to the id of the stored row
OnlyIdentityRewritten ==
    (pc \in AssembledPcs) =>
        (/\ DOMAIN graph_data' = DOMAIN graph_data
         /\ \A f \in DOMAIN graph_data \ {"id"} : graph_data'[f] = graph_data[f]
         /\ graph_data'.id # graph_data.id =>
               (/\ pc = "prepared"
                /\ session'.committed = "ok"
                /\ graph_data.id = LocalGraphId
                /\ \E row \in db_graphs' : row.id = graph_data'.id))

\* C20, amended: after the hand-over the nodes, edges, clusters, analysis
\* and metadata of the snapshot no longer change; the sink replaces its id by
\* the stored row's id when the commit succeeds and leaves it alone when the
\* save fails; the sink is handed a snapshot only after the enrichment
\* stages and the assembly pass
C20_OnlyIdChangesAfterHandOff ==
    /\ [][OnlyIdentityRewritten]_vars
    /\ []HandedOverWhenFinished
    /\ [](session.committed = "raised" => graph_data.id = LocalGraphId)

\* the sink has committed a snapshot with nodes and written the row's id
\* into it
C20_Witness_IdRewrittenBySink ==
    /\ pc = "save_returned"
    /\ session.committed = "ok"
    /\ graph_data.id = StoredGraphId
    /\ Len(graph_data.nodes) >= 1

\* positions at which the builder's lists exist
CollectingPcs == {"papers", "authors", "keywords", "citations", "collected"}

\* C21: no two nodes of the builder's list share an id: an author or a
\* keyword reached from several papers has one node, and the ids of papers,
\* authors and keywords never collide
C21_NodeIdsAreUnique ==
    pc \in CollectingPcs =>
        /\ \A i, j \in 1..Len(nodes) : nodes[i].id = nodes[j].id => i = j
        /\ \A i \in 1..Len(nodes) : nodes[i].id[1] = nodes[i].node_type
        /\ node_ids = NodeIdsOf(nodes)

\* the builder has returned with an author of two admitted papers
C21_Witness_SharedAuthorOneNode ==
    /\ pc = "collected"
    /\ \E i, j \in 1..Len(edges) :
          /\ edges[i].edge_type = "authored_by"
          /\ edges[j].edge_type = "authored_by"
          /\ edges[i].source = edges[j].source
          /\ edges[i].target # edges[j].target
          /\ {edges[i].source, edges[i].target, edges[j].target} \subseteq node_ids

\* C22: a cites edge exists only for a citation whose cited paper has a node
\* when the citation edges are created: no cites edge has a target outside
\* the node list
C22_CitesTargetsAreAdmitted ==
    pc \in {"citations", "collected"} =>
        \A i \in 1..Len(edges) :
            edges[i].edge_type = "cites" =>
                edges[i].target \in node_ids /\ edges[i].target \in NodeIdsOf(nodes)

\* the builder has returned a cites edge, and has left out the citation of
\* a paper that has no node
C22_Witness_OutsideCitationDropped ==
    /\ pc = "collected"
    /\ \E i \in 1..Len(edges) : edges[i].edge_type = "cites"
    /\ \E i \in 1..Len(papers_data) :
          \E c \in Range(papers_data[i].citations_made) : PaperNodeId(c) \notin node_ids

\* the build is not stuck at a position before the cluster stage
BuilderCanGoOn ==
    /\ pc = "papers" => ENABLED (PapersEnd \/ AdmitPaper)
    /\ pc = "citations" => ENABLED (CollectReturn \/ CitePaper)
    /\ pc = "collected" => ENABLED BuildNetworkx
    /\ pc = "graphed" => ENABLED Analyze
    /\ pc = "analyzed" => ENABLED LayoutOk
    /\ pc = "laid_out" => ENABLED (DetectClustersFail \/ DetectClusters)

\* C23: when the query matches no paper the builder returns two empty
\* lists, no stage raises, and the build goes on to return a graph object
\* with zero nodes, zero edges and zero clusters
C23_NoPapersGivesEmptyGraph ==
    (session.executed = "ok" /\ papers_data = << >>) =>
        /\ nodes = << >>
        /\ edges = << >>
        /\ pc # "raised"
        /\ BuilderCanGoOn
        /\ BuildCanGoOn
        /\ pc \in AssembledPcs =>
              /\ graph_data.nodes = << >>
              /\ graph_data.edges = << >>
              /\ graph_data.clusters = << >>
              /\ graph_data.metadata.node_count = 0
              /\ graph_data.metadata.edge_count = 0
              /\ graph_data.metadata.cluster_count = 0

\* a build whose budget allowed papers, and whose query matched none, has
\* returned after its snapshot was stored
C23_Witness_EmptyGraphReturned ==
    /\ pc = "returned"
    /\ PaperLimit(max_nodes) >= 1
    /\ session.executed = "ok"
    /\ papers_data = << >>
    /\ session.committed = "ok"

\* the edges of one type that are exactly [source, target, type, weight]
EdgesLike(src, tgt, etype, w10) ==
    { i \in 1..Len(edges) : edges[i] = GraphEdge(src, tgt, etype, w10) }

EdgesOfType(etype) == { i \in 1..Len(edges) : edges[i].edge_type = etype }

\* C24: every admitted paper has one authored-by edge (author -> paper,
\* weight 1.0) per author and one related-to edge (paper -> keyword, weight
\* 0.5) per keyword, whether the related node was created, was there
\* already, or was refused; a paper without a node has neither
C24_OneEdgePerAuthorAndKeyword ==
    pc \in {"citations", "collected"} =>
        /\ \A i \in 1..Len(papers_data) :
              LET paper == papers_data[i]
                  paper_id == PaperNodeId(paper.id)
              IN  IF paper_id \in node_ids
                    THEN /\ \A a \in Range(paper.authors) :
                               Cardinality(EdgesLike(AuthorNodeId(a), paper_id,
                                                     "authored_by", 10)) = 1
                         /\ \A kw \in Range(paper.keywords) :
                               Cardinality(EdgesLike(paper_id, KeywordNodeId(kw),
                                                     "related_to", 5)) = 1
                    ELSE \A j \in 1..Len(edges) :
                            edges[j].edge_type \in {"authored_by", "related_to"} =>
                                paper_id \notin {edges[j].source, edges[j].target}
        /\ Cardinality(EdgesOfType("authored_by"))
             = Cardinality({ <<i, a>> \in (1..Len(papers_data)) \X AuthorIds :
                               /\ PaperNodeId(papers_data[i].id) \in node_ids
                               /\ a \in Range(papers_data[i].authors) })
        /\ Cardinality(EdgesOfType("related_to"))
             = Cardinality({ <<i, kw>> \in (1..Len(papers_data)) \X KeywordIds :
                               /\ PaperNodeId(papers_data[i].id) \in node_ids
                               /\ kw \in Range(papers_data[i].keywords) })

\* the builder has returned an authored-by edge from an author that was
\* there already and one from an author that was refused
C24_Witness_EdgeToPresentAndRefused ==
    /\ pc = "collected"
    /\ \E i, j \in 1..Len(edges) :
          /\ i < j
          /\ edges[i].edge_type = "authored_by"
          /\ edges[j].edge_type = "authored_by"
          /\ edges[i].source = edges[j].source
    /\ \E i \in 1..Len(edges) :
          edges[i].edge_type = "authored_by" /\ edges[i].source \notin node_ids

\* the layer the hierarchical layout is to put a node type on
LayerIndex(node_type) ==
    CASE node_type = "paper" -> 0
      [] node_type = "author" -> 1
      [] node_type \in {"keyword", "concept"} -> 2
      [] node_type = "institution" -> 3
      [] OTHER -> 0

\* the places of ns that hold a node of the layer
LayerPlaces(ns, layer) == { i \in 1..Len(ns) : LayerIndex(ns[i].node_type) = layer }

\* C25: in the hierarchical layout a node's vertical coordinate is 100 times
\* its layer index, the nodes of one layer lie evenly on one circle whose
\* radius follows from the number of nodes of the layer, and two nodes of
\* one layer never get the same position
C25_HierarchicalLayersAreCircles ==
    (pc = "laid_out" /\ algorithm = "hierarchical") =>
        \A i \in 1..Len(nodes) :
            LET layer == LayerIndex(nodes[i].node_type)
                members == LayerPlaces(nodes, layer)
                pos == layout[nodes[i].id]
            IN  /\ pos[2] = 100 * layer
                /\ pos[5] = Cardinality(members)
                /\ \A j \in members :
                      /\ layout[nodes[j].id][3] = pos[3]
                      /\ j # i => layout[nodes[j].id] # pos

\* node a has a strictly higher importance score than node b
HigherScore(a, b) ==
    a.importance_score.num * b.importance_score.den
        > b.importance_score.num * a.importance_score.den

\* the 0-based rank of the i-th listed node in descending importance order,
\* nodes of equal score ranked in list order
RankOf(ns, i) ==
    Cardinality({ j \in 1..Len(ns) :
                    \/ HigherScore(ns[j], ns[i])
                    \/ ~HigherScore(ns[i], ns[j]) /\ j < i })

\* C26: in the circular layout the node of rank r in descending importance
\* order sits in ring r div 12, at slot r mod 12 of it; ring i has radius
\* 50 + 80 * i and vertical offset 20 * i; a ring holds at most 12 nodes and
\* only the last ring holds fewer; no node of a later ring has a higher
\* importance score than a node of an earlier ring.
C26_CircularRingsFollowRank ==
    (pc = "laid_out" /\ algorithm = "circular") =>
        /\ \A i \in 1..Len(nodes) :
              LET r == RankOf(nodes, i)
                  ring == r \div 12
                  held == Cardinality({ j \in 1..Len(nodes) :
                                          RankOf(nodes, j) \div 12 = ring })
                  pos == layout[nodes[i].id]
              IN  /\ pos[2] = 20 * ring
                  /\ pos[3] = 50 + 80 * ring
                  /\ pos[4] = r % 12
                  /\ pos[5] = held
                  /\ held <= 12
                  /\ held < 12 => ring = (Len(nodes) - 1) \div 12
        /\ \A i, j \in 1..Len(nodes) :
              layout[nodes[i].id][3] < layout[nodes[j].id][3]
                  => ~HigherScore(nodes[j], nodes[i])

\* more than one ring, and a node listed early sits in a later ring than a
\* node of higher score listed after it
C26_Witness_SecondRingByScore ==
    /\ pc = "laid_out"
    /\ algorithm = "circular"
    /\ Len(nodes) > 12
    /\ \E i, j \in 1..Len(nodes) :
          /\ i < j
          /\ HigherScore(nodes[j], nodes[i])
          /\ layout[nodes[i].id][3] > layout[nodes[j].id][3]

\* while the simulation runs and when it has returned: the temperature is
\* 100 * 0.95 ^ (iterations done), and no node moved further than the
\* temperature in the last iteration
SimulationCooledAndCapped ==
    pc \in {"simulating", "laid_out"} =>
        /\ sim.temperature = [start |-> 100, cooled |-> sim.iteration]
        /\ \A id \in DOMAIN sim.moved : sim.moved[id] <= Resolution
        /\ pc = "laid_out" => sim.iteration = 100

\* C27: for every input whose edges join listed nodes the force-directed
\* layout returns, and it returns after exactly 100 iterations; the
\* temperature starts at 100 and is multiplied by 0.95 after each iteration,
\* and in each iteration no node moves by more than the current temperature.
C27_ForceDirectedRunsHundredCooledIterations ==
    /\ []SimulationCooledAndCapped
    /\ (sim.iteration = 0 /\ EdgesBetweenListedNodes(nodes, edges))
           ~> (pc = "laid_out" /\ sim.iteration = 100)

\* a simulation of two joined nodes returned, its last move at the cap
C27_Witness_ReturnedAfterCappedMove ==
    /\ pc = "laid_out"
    /\ Len(edges) > 0
    /\ EdgesBetweenListedNodes(nodes, edges)
    /\ sim.iteration = Iterations
    /\ \E id \in DOMAIN sim.moved : sim.moved[id] = Resolution

\* C28: when the lists returned by the builder hold an edge with an endpoint
\* that is not a listed node, the build gets no further than the layout
\* stage: there the layout cannot return and the build raises; the sink is
\* never handed a graph and nothing is stored. Hence the edges of every
\* build that returns join listed nodes.
C28_DanglingEdgeAbortsBuild ==
    /\ (pc \notin BuilderPcs /\ ~EdgesBetweenListedNodes(nodes, edges)) =>
          /\ pc \in {"collected", "graphed", "analyzed", "raised"}
          /\ pc = "analyzed" => ENABLED LayoutRaise /\ ~ENABLED LayoutOk
          /\ session.add_calls = 0
          /\ session.committed = "no"
          /\ db_graphs = {}
    /\ pc = "returned" => EdgesBetweenListedNodes(nodes, edges)

\* the store answered, the builder returned an edge to a refused node, and
\* the build raised
C28_Witness_RaisedOnDanglingEdge ==
    /\ pc = "raised"
    /\ session.executed = "ok"
    /\ \E i \in 1..Len(edges) : edges[i].target \notin NodeIdsOf(nodes)
    /\ db_graphs = {}

\* C29: every cites edge returned by the builder starts at an admitted
\* paper node; a fetched paper that found the budget full at its turn
\* contributes no cites edge.
C29_CitesSourcesAreAdmitted ==
    pc = "collected" =>
        \A i \in 1..Len(edges) :
            edges[i].edge_type = "cites" => edges[i].source \in node_ids

\* C30: in every returned graph object whose analysis carries counts, the
\* node count of the analysis, the node count of the metadata and the number
\* of serialized nodes are equal, and so are the three edge counts, also when
\* two papers cite each other or a citation is recorded twice.
C30_AnalysisCountsMatchLists ==
    (pc = "returned" /\ "node_count" \in DOMAIN graph_data.analysis) =>
        /\ graph_data.analysis.node_count = graph_data.metadata.node_count
        /\ graph_data.metadata.node_count = Len(graph_data.nodes)
        /\ graph_data.analysis.edge_count = graph_data.metadata.edge_count
        /\ graph_data.metadata.edge_count = Len(graph_data.edges)

====
